---- MODULE Spec2Model ----
(***************************************************************************)
(* DataPlot (rqt_plot/data_plot/__init__.py): a facade over three          *)
(* interchangeable plotting backends.  The model covers the module-level   *)
(* backend probing, the constructor, the backend switch with its replay    *)
(* of the stored curves, the curve bookkeeping and the settings calls.     *)
(*                                                                         *)
(* Python lists are objects: add_curve stores the caller's list objects    *)
(* themselves and update_values extends them in place.  A list reference   *)
(* is a record [ref, val]: ref = 0 is a list no one else holds (its        *)
(* content is val); ref > 0 is a list the caller keeps a reference to and  *)
(* may pass again, whose content is heap[ref].                             *)
(***************************************************************************)
EXTENDS Integers, Sequences, FiniteSets

VARIABLES
    phase,              \* "unloaded" | "import_failed" | "loaded" | "init_failed" | "ready"
    importable,         \* environment: which backend modules can be imported
    plot_types,         \* DataPlot.plot_types: the 'enabled' flag of each descriptor
    _plot_index,        \* self._plot_index
    _autoscroll,        \* self._autoscroll
    _data_plot_widget,  \* self._data_plot_widget: {} is None, {c} an instance of class c
    _curves,            \* self._curves: curve id -> [name, x, y], x and y list references
    heap,               \* content of the list objects the caller keeps references to
    live,               \* number of backend instances constructed and not closed
    calls,              \* calls the last operation made on its collaborators, in order
    err                 \* exception the last operation raised, "none" if it returned

vars == <<phase, importable, plot_types, _plot_index, _autoscroll,
          _data_plot_widget, _curves, heap, live, calls, err>>

\* ------------------------------------------------------------------ bounds

\* number of entries of DataPlot.plot_types
NumTypes == 3

\* most samples the lists of the model hold together
MaxSamples == 2

TypeIdx == 0 .. (NumTypes - 1)

\* curve ids the caller uses; "" is an id that is false in a Python condition
CurveIds == {"", "a"}

\* the value of an omitted curve_id argument
None == "<None>"

CurveNames == {"A"}

\* list objects the caller keeps and may pass more than once
Addr == {1}

\* series handed to add_curve, and increments handed to update_values
InitialData == {<<>>, <<1>>}
Increments == {<<>>, <<2>>}

\* values the settings store may hold under 'plot_type'
StoredValues == (0 - 1) .. NumTypes

\* the store as restore_settings finds it: without the key, or holding one value
StoredSettings == {{}} \cup {{v} : v \in StoredValues}

\* what the settings dialog returns: {} when cancelled, or the option chosen
DialogChoices == {{}} \cup {{t} : t \in TypeIdx}

\* ------------------------------------------------------------------ lists

Fresh(s) == [ref |-> 0, val |-> s]

Shared(a) == [ref |-> a, val |-> <<>>]

ListArgs(S) == {Fresh(s) : s \in S} \cup {Shared(a) : a \in Addr}

\* the content of the list object l
Deref(h, l) == IF l.ref = 0 THEN l.val ELSE h[l.ref]

\* the x and y series of a curve, by content
Series(h, c) == [name |-> c.name, x |-> Deref(h, c.x), y |-> Deref(h, c.y)]

\* the curves map by content: what a reader of self._curves sees
CurvesView(cs, h) == [id \in DOMAIN cs |-> Series(h, cs[id])]

Curves == CurvesView(_curves, heap)

\* number of samples held by the curves' own lists and the caller's lists
Own(l) == IF l.ref = 0 THEN Len(l.val) ELSE 0

RECURSIVE SumOver(_, _)
SumOver(S, f) ==
    IF S = {} THEN 0
    ELSE LET e == CHOOSE e \in S : TRUE IN f[e] + SumOver(S \ {e}, f)

Samples(cs, h) ==
    SumOver(DOMAIN cs, [id \in DOMAIN cs |-> Own(cs[id].x) + Own(cs[id].y)])
    + SumOver(DOMAIN h, [a \in DOMAIN h |-> Len(h[a])])

\* every order in which a dict of these keys may be iterated
Orders(S) == {o \in [1 .. Cardinality(S) -> S] : \A i, j \in 1 .. Cardinality(S) : o[i] = o[j] => i = j}

\* ------------------------------------------------------------------ calls

Call(op, id, name, x, y, n) == [op |-> op, id |-> id, name |-> name, x |-> x, y |-> y, n |-> n]

Plain(op) == Call(op, None, "", <<>>, <<>>, 0)

Flag(b) == IF b THEN 1 ELSE 0

Truthy(v) == v # None /\ v # ""

\* ------------------------------------------------------------------ module

\* lines 39-97: the three guarded imports and the descriptor table.  The
\* except clauses call qDebug, a name the module never imports: the first
\* import that fails ends the module's import with a NameError.
ImportModule ==
    /\ phase = "unloaded"
    /\ IF \A t \in TypeIdx : importable[t]
       THEN /\ phase' = "loaded"
            /\ plot_types' = [t \in TypeIdx |-> importable[t]]
            /\ err' = "none"
       ELSE /\ phase' = "import_failed"
            /\ err' = "NameError"
            /\ UNCHANGED plot_types
    /\ UNCHANGED <<importable, _plot_index, _autoscroll, _data_plot_widget,
                   _curves, heap, live, calls>>

\* ------------------------------------------------------------------ switch

\* plot_types[i] for a Python index: negative indices count from the end
InRange(i) == (0 - NumTypes) <= i /\ i < NumTypes

PyIndex(i) == IF i < 0 THEN i + NumTypes ELSE i

Enabled(i) == plot_types[PyIndex(i)]

EnabledTypes == {t \in TypeIdx : plot_types[t]}

\* a fallback that scans on from the requested index and wraps around
SelectIndexForward(plot_index) ==
    IF ~Enabled(plot_index) /\ EnabledTypes # {}
    THEN IF \E t \in EnabledTypes : t > PyIndex(plot_index)
         THEN CHOOSE t \in EnabledTypes :
                 t > PyIndex(plot_index) /\ \A u \in EnabledTypes : u > PyIndex(plot_index) => t <= u
         ELSE CHOOSE t \in EnabledTypes : \A u \in EnabledTypes : t <= u
    ELSE plot_index

\* a selection that takes the requested descriptor as it is
SelectIndexNoFallback(plot_index) == plot_index

\* lines 136-141: the index the switch settles on
SelectIndex(plot_index) ==
    IF ~Enabled(plot_index) /\ EnabledTypes # {}
    THEN CHOOSE t \in EnabledTypes : \A u \in EnabledTypes : t <= u
    ELSE plot_index

\* a teardown that takes the old widget out of the layout and never closes it
TeardownDetachOnly ==
    IF _data_plot_widget # {}
    THEN [calls |-> <<Plain("removeWidget")>>, live |-> live]
    ELSE [calls |-> <<>>, live |-> live]

\* lines 148-151: detach and close the previous instance, if there is one
Teardown ==
    IF _data_plot_widget # {}
    THEN [calls |-> <<Plain("removeWidget"), Plain("close")>>, live |-> live - 1]
    ELSE [calls |-> <<>>, live |-> live]

\* lines 157-161: one add_curve per stored curve, in dict order o
\* a replay that hands the new backend the curve's id and name without its series
ReplayCallsNameOnly(o) ==
    [i \in 1 .. Len(o) |-> Call("add_curve", o[i], _curves[o[i]].name, <<>>, <<>>, 0)]

ReplayCalls(o) ==
    [i \in 1 .. Len(o) |->
        Call("add_curve", o[i], _curves[o[i]].name,
             Deref(heap, _curves[o[i]].x), Deref(heap, _curves[o[i]].y), 0)]

\* a switch that starts from an empty dict, as __init__ does
RestoredCurvesReset == <<>>

\* lines 157-161: the replay loop reads self._curves and assigns nothing to it
RestoredCurves == _curves

\* a switch that leaves the new backend with its own autoscroll default
_switch_data_plot_widget_unscrolled(plot_index) ==
    IF ~InRange(plot_index)
    THEN \* line 136: plot_types[plot_index] raises before anything is changed
         /\ err' = "IndexError"
         /\ calls' = <<>>
         /\ UNCHANGED <<_plot_index, _data_plot_widget, live, _autoscroll, _curves, heap>>
    ELSE LET sel == SelectIndex(plot_index) IN
         /\ _plot_index' = sel
         /\ _curves' = RestoredCurves
         /\ UNCHANGED <<_autoscroll, heap>>
         /\ IF ~Enabled(sel)
            THEN \* line 153: widget_class is None and is called
                 /\ err' = "TypeError"
                 /\ calls' = Teardown.calls
                 /\ _data_plot_widget' = {}
                 /\ live' = Teardown.live
            ELSE /\ err' = "none"
                 /\ _data_plot_widget' = {PyIndex(sel)}
                 /\ live' = Teardown.live + 1
                 /\ \E o \in Orders(DOMAIN _curves) :
                        calls' = Teardown.calls
                                 \o <<Call("construct", None, "", <<>>, <<>>, PyIndex(sel)),
                                          Plain("addWidget")>>
                                 \o ReplayCalls(o)
                                 \o <<Plain("redraw")>>

\* lines 133-162
_switch_data_plot_widget(plot_index) ==
    IF ~InRange(plot_index)
    THEN \* line 136: plot_types[plot_index] raises before anything is changed
         /\ err' = "IndexError"
         /\ calls' = <<>>
         /\ UNCHANGED <<_plot_index, _data_plot_widget, live, _autoscroll, _curves, heap>>
    ELSE LET sel == SelectIndex(plot_index) IN
         /\ _plot_index' = sel
         /\ _curves' = RestoredCurves
         /\ UNCHANGED <<_autoscroll, heap>>
         /\ IF ~Enabled(sel)
            THEN \* line 153: widget_class is None and is called
                 /\ err' = "TypeError"
                 /\ calls' = Teardown.calls
                 /\ _data_plot_widget' = {}
                 /\ live' = Teardown.live
            ELSE /\ err' = "none"
                 /\ _data_plot_widget' = {PyIndex(sel)}
                 /\ live' = Teardown.live + 1
                 /\ \E o \in Orders(DOMAIN _curves) :
                        calls' = Teardown.calls
                                 \o <<Call("construct", None, "", <<>>, <<>>, PyIndex(sel)),
                                      Call("autoscroll", None, "", <<>>, <<>>, Flag(_autoscroll)),
                                      Plain("addWidget")>>
                                 \o ReplayCalls(o)
                                 \o <<Plain("redraw")>>

\* ------------------------------------------------------------------ construction

\* a constructor that leaves the backend to restore_settings
ConstructDeferred ==
    /\ phase = "loaded"
    /\ phase' = IF EnabledTypes = {} THEN "init_failed" ELSE "ready"
    /\ err' = IF EnabledTypes = {} THEN "NameError" ELSE "none"
    /\ calls' = <<>>
    /\ UNCHANGED <<importable, plot_types, _plot_index, _data_plot_widget, live,
                   _autoscroll, _curves, heap>>

\* lines 104-131
Construct ==
    /\ phase = "loaded"
    /\ IF EnabledTypes = {}
       THEN \* line 126 reads QT_BINDING, a name the module never imports
            /\ phase' = "init_failed"
            /\ err' = "NameError"
            /\ calls' = <<>>
            /\ UNCHANGED <<_plot_index, _data_plot_widget, live, _autoscroll, _curves, heap>>
       ELSE /\ phase' = "ready"
            /\ _switch_data_plot_widget(0)
    /\ UNCHANGED <<importable, plot_types>>

\* ------------------------------------------------------------------ settings

\* lines 166-168
getTitle == PyIndex(_plot_index)

\* a save that writes the position of the active descriptor among the available ones
save_settings_position ==
    /\ phase = "ready"
    /\ calls' = <<Call("set_value", "plot_type", "", <<>>, <<>>,
                       Cardinality({t \in EnabledTypes : t < PyIndex(_plot_index)}))>>
    /\ err' = "none"
    /\ UNCHANGED <<phase, importable, plot_types, _plot_index, _autoscroll,
                   _data_plot_widget, _curves, heap, live>>

\* lines 170-175
save_settings ==
    /\ phase = "ready"
    /\ calls' = <<Call("set_value", "plot_type", "", <<>>, <<>>, _plot_index)>>
    /\ err' = "none"
    /\ UNCHANGED <<phase, importable, plot_types, _plot_index, _autoscroll,
                   _data_plot_widget, _curves, heap, live>>

\* line 181: instance_settings.value('plot_type', 0) as an int; stored is {} when
\* the store has no such key, {v} when it holds v
StoredIndex(stored) == IF stored = {} THEN 0 ELSE CHOOSE v \in stored : TRUE

\* lines 177-181
restore_settings(stored) ==
    /\ phase = "ready"
    /\ _switch_data_plot_widget(StoredIndex(stored))
    /\ UNCHANGED <<phase, importable, plot_types>>

\* a dialog that switches on every confirmed choice, the active one included
doSettingsDialogAlways(choice) ==
    /\ phase = "ready"
    /\ IF choice # {}
       THEN \E i \in choice : _switch_data_plot_widget(i)
       ELSE /\ calls' = <<>>
            /\ err' = "none"
            /\ UNCHANGED <<_plot_index, _data_plot_widget, live, _autoscroll, _curves, heap>>
    /\ UNCHANGED <<phase, importable, plot_types>>

\* lines 183-194: choice is {} when the dialog is cancelled, {i} when option i is chosen
doSettingsDialog(choice) ==
    /\ phase = "ready"
    /\ IF choice # {} /\ choice # {_plot_index}
       THEN \E i \in choice : _switch_data_plot_widget(i)
       ELSE /\ calls' = <<>>
            /\ err' = "none"
            /\ UNCHANGED <<_plot_index, _data_plot_widget, live, _autoscroll, _curves, heap>>
    /\ UNCHANGED <<phase, importable, plot_types>>

\* ------------------------------------------------------------------ data interface

\* lines 198-202
autoscroll(enabled) ==
    /\ phase = "ready"
    /\ _autoscroll' = enabled
    /\ calls' = IF _data_plot_widget # {}
                THEN <<Call("autoscroll", None, "", <<>>, <<>>, Flag(enabled))>>
                ELSE <<>>
    /\ err' = "none"
    /\ UNCHANGED <<phase, importable, plot_types, _plot_index, _data_plot_widget,
                   _curves, heap, live>>

\* lines 204-210
redraw ==
    /\ phase = "ready"
    /\ calls' = IF _data_plot_widget # {} THEN <<Plain("redraw")>> ELSE <<>>
    /\ err' = "none"
    /\ UNCHANGED <<phase, importable, plot_types, _plot_index, _autoscroll,
                   _data_plot_widget, _curves, heap, live>>

\* a store that keeps the entry an id already has
StoreCurveIfAbsent(cs, curve_id, curve_name, data_x, data_y) ==
    [id \in DOMAIN cs \cup {curve_id} |->
        IF id \in DOMAIN cs THEN cs[id] ELSE [name |-> curve_name, x |-> data_x, y |-> data_y]]

\* line 230: the dict entry keeps the caller's list objects
StoreCurve(cs, curve_id, curve_name, data_x, data_y) ==
    [id \in DOMAIN cs \cup {curve_id} |->
        IF id = curve_id THEN [name |-> curve_name, x |-> data_x, y |-> data_y] ELSE cs[id]]

\* an add_curve that has the backend repaint after taking the curve
add_curve_redrawing(curve_id, curve_name, data_x, data_y) ==
    /\ phase = "ready"
    /\ calls' = IF _data_plot_widget # {}
                THEN <<Call("add_curve", curve_id, curve_name,
                            Deref(heap, data_x), Deref(heap, data_y), 0),
                       Plain("redraw")>>
                ELSE <<>>
    /\ _curves' = StoreCurve(_curves, curve_id, curve_name, data_x, data_y)
    /\ Samples(StoreCurve(_curves, curve_id, curve_name, data_x, data_y), heap) <= MaxSamples
    /\ err' = "none"
    /\ UNCHANGED <<phase, importable, plot_types, _plot_index, _autoscroll,
                   _data_plot_widget, heap, live>>

\* lines 219-232
add_curve(curve_id, curve_name, data_x, data_y) ==
    /\ phase = "ready"
    /\ calls' = IF _data_plot_widget # {}
                THEN <<Call("add_curve", curve_id, curve_name,
                            Deref(heap, data_x), Deref(heap, data_y), 0)>>
                ELSE <<>>
    /\ _curves' = StoreCurve(_curves, curve_id, curve_name, data_x, data_y)
    /\ Samples(StoreCurve(_curves, curve_id, curve_name, data_x, data_y), heap) <= MaxSamples
    /\ err' = "none"
    /\ UNCHANGED <<phase, importable, plot_types, _plot_index, _autoscroll,
                   _data_plot_widget, heap, live>>

\* a removal that leaves the dict as it is
DeleteCurveKept(cs, curve_id) == cs

\* lines 236-237
DeleteCurve(cs, curve_id) == [id \in DOMAIN cs \ {curve_id} |-> cs[id]]

\* lines 234-239
remove_curve(curve_id) ==
    /\ phase = "ready"
    /\ _curves' = DeleteCurve(_curves, curve_id)
    /\ calls' = IF _data_plot_widget # {}
                THEN <<Call("remove_curve", curve_id, "", <<>>, <<>>, 0)>>
                ELSE <<>>
    /\ err' = "none"
    /\ UNCHANGED <<phase, importable, plot_types, _plot_index, _autoscroll,
                   _data_plot_widget, heap, live>>

\* a lookup that inserts an empty curve for a missing key before it raises
_get_curve_inserting(curve_id) ==
    /\ err' = "DataPlotException"
    /\ calls' = <<>>
    /\ _curves' = [id \in DOMAIN _curves \cup {curve_id} |->
                       IF id \in DOMAIN _curves THEN _curves[id]
                       ELSE [name |-> "", x |-> [ref |-> 0, val |-> <<>>], y |-> [ref |-> 0, val |-> <<>>]]]
    /\ UNCHANGED heap

\* lines 215-217: _get_curve on an id that is not a key raises, and update_values
\* ends there
_get_curve_raises(curve_id) ==
    /\ err' = "DataPlotException"
    /\ calls' = <<>>
    /\ UNCHANGED <<_curves, heap>>

\* list.extend on the list object l: the state [cs, h] after l.extend(values),
\* where l is field f ("x" or "y") of curve curve_id
Extend(st, curve_id, f, values) ==
    LET l == st.cs[curve_id][f]
        v == Deref(st.h, values)
    IN  IF l.ref = 0
        THEN [cs |-> [st.cs EXCEPT ![curve_id][f].val = @ \o v], h |-> st.h]
        ELSE [cs |-> st.cs, h |-> [st.h EXCEPT ![l.ref] = @ \o v]]

\* lines 250-252
ExtendCurve(cs, h, curve_id, values_x, values_y) ==
    Extend(Extend([cs |-> cs, h |-> h], curve_id, "x", values_x), curve_id, "y", values_y)

\* lines 241-254
update_values(curve_id, values_x, values_y) ==
    /\ phase = "ready"
    /\ IF curve_id \notin DOMAIN _curves
       THEN _get_curve_raises(curve_id)
       ELSE LET st == ExtendCurve(_curves, heap, curve_id, values_x, values_y) IN
            /\ err' = "none"
            /\ _curves' = st.cs
            /\ heap' = st.h
            /\ calls' = IF _data_plot_widget # {}
                        THEN <<Call("update_values", curve_id, "",
                                    Deref(st.h, values_x), Deref(st.h, values_y), 0)>>
                        ELSE <<>>
            /\ Samples(st.cs, st.h) <= MaxSamples
    /\ UNCHANGED <<phase, importable, plot_types, _plot_index, _autoscroll,
                   _data_plot_widget, live>>

\* a clear that resets x and leaves y
ClearAllX(cs) == [id \in DOMAIN cs |-> [name |-> cs[id].name, x |-> [ref |-> 0, val |-> <<>>], y |-> cs[id].y]]

\* lines 273-275: every stored curve gets two new empty lists
ClearAll(cs) == [id \in DOMAIN cs |-> [name |-> cs[id].name, x |-> Fresh(<<>>), y |-> Fresh(<<>>)]]

\* lines 256-277
clear_values(curve_id) ==
    /\ phase = "ready"
    /\ IF Truthy(curve_id)
       THEN \* line 267: DataPlot has no method _check_curve_exists
            /\ err' = "AttributeError"
            /\ calls' = <<>>
            /\ UNCHANGED _curves
       ELSE /\ _curves' = ClearAll(_curves)
            /\ \E o \in Orders(DOMAIN _curves) :
                  calls' = IF _data_plot_widget # {}
                           THEN [i \in 1 .. Len(o) |-> Call("clear_values", o[i], "", <<>>, <<>>, 0)]
                           ELSE <<>>
            /\ err' = "none"
    /\ UNCHANGED <<phase, importable, plot_types, _plot_index, _autoscroll,
                   _data_plot_widget, heap, live>>

\* ------------------------------------------------------------------ specification

Init ==
    /\ phase = "unloaded"
    /\ importable \in [TypeIdx -> BOOLEAN]
    /\ plot_types = [t \in TypeIdx |-> FALSE]
    /\ _plot_index = 0
    /\ _autoscroll = TRUE
    /\ _data_plot_widget = {}
    /\ _curves = <<>>
    /\ heap = [a \in Addr |-> <<>>]
    /\ live = 0
    /\ calls = <<>>
    /\ err = "none"

Next ==
    \/ ImportModule
    \/ Construct
    \/ save_settings
    \/ \E stored \in StoredSettings : restore_settings(stored)
    \/ \E choice \in DialogChoices : doSettingsDialog(choice)
    \/ \E enabled \in BOOLEAN : autoscroll(enabled)
    \/ redraw
    \/ \E curve_id \in CurveIds, curve_name \in CurveNames,
          data_x \in ListArgs(InitialData), data_y \in ListArgs(InitialData) :
          add_curve(curve_id, curve_name, data_x, data_y)
    \/ \E curve_id \in CurveIds : remove_curve(curve_id)
    \/ \E curve_id \in CurveIds,
          values_x \in ListArgs(Increments), values_y \in ListArgs(Increments) :
          update_values(curve_id, values_x, values_y)
    \/ \E curve_id \in CurveIds \cup {None} : clear_values(curve_id)

Spec == Init /\ [][Next]_vars

\* The constructor and the backend-selection calls against every descriptor
\* table: plot_types is a class attribute that each call reads anew, with
\* 'enabled' false wherever widget_class is None.
InitTable ==
    /\ phase = "loaded"
    /\ importable = [t \in TypeIdx |-> TRUE]
    /\ plot_types \in [TypeIdx -> BOOLEAN]
    /\ _plot_index = 0
    /\ _autoscroll = TRUE
    /\ _data_plot_widget = {}
    /\ _curves = <<>>
    /\ heap = [a \in Addr |-> <<>>]
    /\ live = 0
    /\ calls = <<>>
    /\ err = "none"

NextTable ==
    \/ Construct
    \/ save_settings
    \/ \E stored \in StoredSettings : restore_settings(stored)
    \/ \E choice \in DialogChoices : doSettingsDialog(choice)
    \/ \E enabled \in BOOLEAN : autoscroll(enabled)
    \/ redraw
    \/ \E curve_id \in CurveIds, curve_name \in CurveNames :
          add_curve(curve_id, curve_name, Fresh(<<>>), Fresh(<<>>))
    \/ \E curve_id \in CurveIds : remove_curve(curve_id)

SpecTable == InitTable /\ [][NextTable]_vars

\* ------------------------------------------------------------------ properties

HasCall(op) == \E i \in DOMAIN calls : calls[i].op = op

CallsOf(op) == {i \in DOMAIN calls : calls[i].op = op}

\* a call that can switch the backend
SwitchCall ==
    \/ \E stored \in StoredSettings : restore_settings(stored)
    \/ \E choice \in DialogChoices : doSettingsDialog(choice)

\* C1: a backend switch, reached through restore_settings or doSettingsDialog,
\* leaves the curves map as it was: the same keys, and for each curve the same
\* name, x series and y series.
C1_SwitchPreservesCurves == [][Curves' = Curves \/ ~SwitchCall]_vars

\* a state right after a switch that closed one backend and replayed two curves
\* holding data
C1_Witness ==
    /\ HasCall("close") /\ HasCall("construct")
    /\ DOMAIN _curves = CurveIds
    /\ \A id \in CurveIds : Curves[id].x # <<>>

\* C2: update_values with an id that is not a key of the curves map raises
\* DataPlotException, leaves the curves map unchanged and forwards nothing to
\* the backend.
C2_UpdateUnknownId ==
    [][\/ (err' = "DataPlotException" /\ Curves' = Curves /\ calls' = <<>>)
       \/ ~\E id \in CurveIds \ DOMAIN _curves,
              vx \in ListArgs(Increments), vy \in ListArgs(Increments) :
              update_values(id, vx, vy)]_vars

\* a state right after update_values raised while another curve holds data
C2_Witness ==
    /\ err = "DataPlotException"
    /\ \E id \in DOMAIN _curves : Curves[id].x # <<>> /\ Curves[id].y # <<>>

\* C3 as claimed: clear_values(id) on a stored id returns without error, empties
\* exactly that curve's x and y, forwards clear_values(id) and leaves every other
\* curve and the key set alone.
C3_ClearOneAsClaimed ==
    [][\A id \in CurveIds :
          (id \in DOMAIN _curves /\ clear_values(id))
          => /\ err' = "none"
             /\ DOMAIN Curves' = DOMAIN Curves
             /\ Curves'[id] = [name |-> Curves[id].name, x |-> <<>>, y |-> <<>>]
             /\ \A other \in DOMAIN Curves \ {id} : Curves'[other] = Curves[other]
             /\ calls' = <<Call("clear_values", id, "", <<>>, <<>>, 0)>>]_vars

\* C4: clear_values() without an id empties the x and y series of every stored
\* curve, keeps the keys and the names, and forwards one clear_values(curve_id)
\* per stored curve and nothing else.
C4_ClearAll ==
    [][clear_values(None)
       => /\ err' = "none"
          /\ DOMAIN Curves' = DOMAIN Curves
          /\ \A id \in DOMAIN Curves :
                Curves'[id] = [name |-> Curves[id].name, x |-> <<>>, y |-> <<>>]
          /\ Len(calls') = Cardinality(DOMAIN Curves)
          /\ \A id \in DOMAIN Curves :
                \E i \in DOMAIN calls' : calls'[i] = Call("clear_values", id, "", <<>>, <<>>, 0)]_vars

\* a state right after clear_values() emptied two curves
C4_Witness ==
    /\ Len(calls) = 2
    /\ \A i \in DOMAIN calls : calls[i].op = "clear_values"
    /\ DOMAIN _curves = CurveIds
    /\ \A id \in CurveIds : Curves[id].x = <<>> /\ Curves[id].y = <<>>

\* a call that asks _switch_data_plot_widget for index req
SwitchTo(req) ==
    \/ req = 0 /\ Construct
    \/ \E stored \in StoredSettings : StoredIndex(stored) = req /\ restore_settings(stored)
    \/ req \in TypeIdx /\ req # _plot_index /\ doSettingsDialog({req})

\* C5: when the descriptor at the requested index is available, that index becomes
\* the active index; when it is not, the active index becomes the lowest index
\* whose descriptor is available, and no error is raised.
C5_BackendSelection ==
    [][\A req \in StoredValues :
          (InRange(req) /\ EnabledTypes # {} /\ SwitchTo(req))
          => /\ err' = "none"
             /\ IF plot_types[PyIndex(req)]
                THEN _plot_index' = req
                ELSE /\ _plot_index' \in TypeIdx
                     /\ plot_types[_plot_index']
                     /\ \A t \in TypeIdx : plot_types[t] => _plot_index' <= t]_vars

\* a state right after the constructor asked for index 0 with only the last
\* descriptor available
C5_Witness ==
    /\ phase = "ready"
    /\ ~plot_types[0] /\ ~plot_types[1] /\ plot_types[2]
    /\ HasCall("construct") /\ ~HasCall("close")
    /\ _plot_index = 2

\* C6 as claimed: with no descriptor available the constructor fails with
\* RuntimeError and constructs no backend instance.
C6_NoBackendAsClaimed ==
    phase = "init_failed" => (err = "RuntimeError" /\ live = 0 /\ ~HasCall("construct"))

\* C7 as claimed: update_values on a stored id appends xs to that curve's x and ys
\* to its y, leaves the series of every other curve unchanged, and forwards exactly
\* (xs, ys) to the backend.
C7_UpdateAppendsAsClaimed ==
    [][\A id \in CurveIds, vx \in ListArgs(Increments), vy \in ListArgs(Increments) :
          (id \in DOMAIN _curves /\ update_values(id, vx, vy))
          => /\ err' = "none"
             /\ DOMAIN Curves' = DOMAIN Curves
             /\ Curves'[id].x = Curves[id].x \o Deref(heap, vx)
             /\ Curves'[id].y = Curves[id].y \o Deref(heap, vy)
             /\ \A other \in DOMAIN Curves \ {id} : Curves'[other] = Curves[other]
             /\ calls' = <<Call("update_values", id, "", Deref(heap, vx), Deref(heap, vy), 0)>>]_vars

\* C8: remove_curve never raises; it deletes the id if present and leaves every
\* other curve as it was, forwards the removal to the backend either way, an
\* absent id comes back only through add_curve, and update_values on an absent id
\* raises DataPlotException.
C8_RemoveCurve ==
    [][/\ \A id \in CurveIds :
             remove_curve(id)
             => /\ err' = "none"
                /\ Curves' = [other \in DOMAIN Curves \ {id} |-> Curves[other]]
                /\ calls' = <<Call("remove_curve", id, "", <<>>, <<>>, 0)>>
       /\ \A id \in CurveIds :
             (id \notin DOMAIN _curves /\ id \in DOMAIN _curves')
             => \E name \in CurveNames, x \in ListArgs(InitialData), y \in ListArgs(InitialData) :
                   add_curve(id, name, x, y)
       /\ \A id \in CurveIds, vx \in ListArgs(Increments), vy \in ListArgs(Increments) :
             (id \notin DOMAIN _curves /\ update_values(id, vx, vy))
             => err' = "DataPlotException"]_vars

\* a state right after remove_curve("a") with the other curve still holding data
C8_Witness ==
    /\ calls = <<Call("remove_curve", "a", "", <<>>, <<>>, 0)>>
    /\ DOMAIN _curves = {""}
    /\ Curves[""].x # <<>>

\* C9: never more than one backend instance is live, and within a switch the
\* previous instance is closed before the new one is constructed.
C9_OneLiveInstance ==
    /\ live <= 1
    /\ \A i \in CallsOf("construct") : \A j \in CallsOf("close") : j < i

\* a state right after a switch from the first backend class to the second
C9_Witness ==
    /\ HasCall("close") /\ HasCall("construct")
    /\ _data_plot_widget = {1}
    /\ live = 1

C11_ReplayProtocol ==
    HasCall("construct") =>
        LET k == CHOOSE i \in CallsOf("construct") : TRUE
            n == Cardinality(DOMAIN _curves)
        IN  /\ CallsOf("construct") = {k}
            /\ Len(calls) = k + 3 + n
            /\ calls[k + 1] = Call("autoscroll", None, "", <<>>, <<>>, Flag(_autoscroll))
            /\ calls[k + 2] = Plain("addWidget")
            /\ \A i \in (k + 3) .. (k + 2 + n) :
                    /\ calls[i].op = "add_curve"
                    /\ calls[i].id \in DOMAIN _curves
            /\ \A id \in DOMAIN _curves :
                    Cardinality({i \in (k + 3) .. (k + 2 + n) :
                        calls[i] = Call("add_curve", id, Curves[id].name,
                                        Curves[id].x, Curves[id].y, 0)}) = 1
            /\ CallsOf("redraw") = {k + 3 + n}

C11_Witness ==
    /\ HasCall("construct") /\ HasCall("close")
    /\ ~_autoscroll
    /\ DOMAIN _curves = CurveIds
    /\ \E id \in CurveIds : Curves[id].x # <<>> /\ Curves[id].y # <<>>

\* a call that changes the data of the plot
DataCall ==
    \/ \E curve_id \in CurveIds, curve_name \in CurveNames, data_x, data_y \in ListArgs(InitialData) :
          add_curve(curve_id, curve_name, data_x, data_y)
    \/ \E curve_id \in CurveIds, values_x, values_y \in ListArgs(Increments) :
          update_values(curve_id, values_x, values_y)
    \/ \E curve_id \in CurveIds \cup {None} : clear_values(curve_id)
    \/ \E curve_id \in CurveIds : remove_curve(curve_id)

\* C12: add_curve, update_values, clear_values and remove_curve never make the
\* backend redraw; the backend's redraw is called only by redraw(), exactly once
\* per call, and once at the end of a backend switch.
C12_RedrawOnlyOnRequest ==
    [][/\ ~HasCall("redraw")' \/ ~DataCall
       /\ calls' = <<Plain("redraw")>> \/ ~redraw
       /\ \/ ~HasCall("redraw")'
          \/ calls' = <<Plain("redraw")>> /\ redraw
          \/ HasCall("construct")' /\ CallsOf("redraw")' = {Len(calls')}]_vars

C12_Witness ==
    /\ Len(calls) = 1
    /\ calls[1].op = "update_values"
    /\ calls[1].x # <<>> /\ calls[1].y # <<>>
    /\ err = "none"

\* C13: add_curve never fails on an id the map already has: afterwards the entry
\* of that id holds exactly the given name, x and y (the last write wins), every
\* other curve is as it was, and the call is forwarded to the backend with the
\* same arguments.
C13_AddCurveOverwrites ==
    [][\A curve_id \in CurveIds, curve_name \in CurveNames, data_x, data_y \in ListArgs(InitialData) :
          add_curve(curve_id, curve_name, data_x, data_y) =>
              /\ err' = "none"
              /\ DOMAIN Curves' = DOMAIN Curves \cup {curve_id}
              /\ Curves'[curve_id] = [name |-> curve_name,
                                      x |-> Deref(heap, data_x), y |-> Deref(heap, data_y)]
              /\ \A id \in DOMAIN Curves \ {curve_id} : Curves'[id] = Curves[id]
              /\ calls' = <<Call("add_curve", curve_id, curve_name,
                                 Deref(heap, data_x), Deref(heap, data_y), 0)>>]_vars

C13_Witness ==
    /\ calls = <<Call("add_curve", "a", "A", <<>>, <<1>>, 0)>>
    /\ DOMAIN _curves = CurveIds
    /\ Curves["a"].x = <<>> /\ Curves["a"].y = <<1>>
    /\ Curves[""].x = <<1>>

\* C14 as claimed: clear_values(id) with an id that is not a key of the curves
\* map fails with the curve-not-found error that update_values raises
\* (DataPlotException), changes no curve and forwards nothing to the backend.
C14_ClearUnknownAsClaimed ==
    [][\A curve_id \in CurveIds \ DOMAIN _curves :
          clear_values(curve_id) =>
              /\ err' = "DataPlotException"
              /\ Curves' = Curves
              /\ calls' = <<>>]_vars

\* C15 as claimed: restore_settings reads the stored index (0 when the store has
\* no such key) and always performs a full switch with it, also when it equals
\* the active index: the old instance is closed, a new one is constructed for
\* the selected or fallback descriptor, and every stored curve is replayed.
C15_RestoreSwitchesAsClaimed ==
    [][\A stored \in StoredSettings :
          restore_settings(stored) =>
              /\ err' = "none"
              /\ HasCall("close")' /\ HasCall("construct")'
              /\ _data_plot_widget' = {PyIndex(_plot_index')}
              /\ \A id \in DOMAIN _curves :
                    \E i \in DOMAIN calls' :
                        calls'[i] = Call("add_curve", id, Curves[id].name,
                                         Curves[id].x, Curves[id].y, 0)]_vars

\* C16: in doSettingsDialog, when the user cancels or chooses the index that is
\* already active, nothing changes: no backend is closed or constructed, no
\* add_curve or redraw is forwarded, and the active index and the curves are as
\* they were; when the user chooses an index other than the active one, a
\* backend switch with that index is performed.
C16_DialogChoice ==
    [][\A choice \in DialogChoices :
          doSettingsDialog(choice) =>
              IF choice = {} \/ choice = {_plot_index}
              THEN /\ calls' = <<>>
                   /\ err' = "none"
                   /\ UNCHANGED <<_plot_index, _data_plot_widget, live, _autoscroll, _curves, heap>>
              ELSE /\ err' = "none"
                   /\ HasCall("close")' /\ HasCall("construct")' /\ HasCall("redraw")'
                   /\ _plot_index' \in choice
                   /\ _data_plot_widget' = choice
                   /\ Curves' = Curves]_vars

C16_Witness ==
    /\ phase = "ready"
    /\ calls = <<>> /\ err = "none"
    /\ _plot_index = 1
    /\ \E id \in DOMAIN _curves : Curves[id].x # <<>>

\* the state of a backend as the calls forwarded to it determine it: a backend
\* that has been told nothing yet
NewBackend == [curves |-> <<>>, autoscroll |-> {}]

\* the backend after one call: add_curve sets a curve, update_values appends to it,
\* clear_values empties it, remove_curve deletes it, autoscroll sets the flag
Receive(b, c) ==
    CASE c.op = "construct" -> NewBackend
      [] c.op = "autoscroll" -> [b EXCEPT !.autoscroll = {c.n = 1}]
      [] c.op = "add_curve" ->
            [b EXCEPT !.curves = [id \in DOMAIN b.curves \cup {c.id} |->
                IF id = c.id THEN [name |-> c.name, x |-> c.x, y |-> c.y] ELSE b.curves[id]]]
      [] c.op = "update_values" /\ c.id \in DOMAIN b.curves ->
            [b EXCEPT !.curves[c.id].x = @ \o c.x, !.curves[c.id].y = @ \o c.y]
      [] c.op = "clear_values" /\ c.id \in DOMAIN b.curves ->
            [b EXCEPT !.curves[c.id].x = <<>>, !.curves[c.id].y = <<>>]
      [] c.op = "remove_curve" ->
            [b EXCEPT !.curves = [id \in DOMAIN b.curves \ {c.id} |-> b.curves[id]]]
      [] OTHER -> b

\* the backend after a sequence of calls
RECURSIVE Deliver(_, _)
Deliver(b, cs) == IF cs = <<>> THEN b ELSE Deliver(Receive(b, Head(cs)), Tail(cs))

\* a backend that holds what the facade holds
Mirror == [curves |-> Curves, autoscroll |-> {_autoscroll}]

\* the key set and the x and y series of a curve state
XY(cs) == [id \in DOMAIN cs |-> <<cs[id].x, cs[id].y>>]

\* C17 as claimed: in every state reached by add_curve, update_values,
\* remove_curve, clear_values and backend switches, the calls forwarded to the
\* active backend since it was constructed, applied to an empty backend, give the
\* curves map: the same keys, and for each curve the same x and y. Stated per
\* operation: a backend that holds the curves map before the operation and takes
\* the operation's calls holds the curves map after it. A switch delivers the
\* whole map to a new backend, so the two statements agree by induction.
C17_MirrorAsClaimed ==
    [][phase' = "ready" => XY(Deliver(Mirror, calls').curves) = XY(Curves')]_vars

\* C18: in every state after initialisation, the autoscroll setting last given to
\* the active backend is the stored autoscroll flag: autoscroll(enabled) stores
\* the flag and forwards it, and every newly activated backend is given the
\* stored flag before any curve is replayed, so the setting survives backend
\* switches. Stated per operation: a backend that holds the stored flag before
\* the operation and takes the operation's calls holds the stored flag after it.
C18_AutoscrollDelivered ==
    [][phase' = "ready" =>
          /\ Deliver(Mirror, calls').autoscroll = {_autoscroll'}
          /\ \A enabled \in BOOLEAN :
                autoscroll(enabled) =>
                    /\ _autoscroll' = enabled
                    /\ calls' = <<Call("autoscroll", None, "", <<>>, <<>>, Flag(enabled))>>
          /\ \A k \in CallsOf("construct")' :
                \E i \in CallsOf("autoscroll")' :
                    /\ k < i
                    /\ calls'[i].n = Flag(_autoscroll)
                    /\ \A j \in CallsOf("add_curve")' : i < j]_vars

C18_Witness ==
    /\ HasCall("close") /\ HasCall("construct")
    /\ ~_autoscroll
    /\ \E i \in CallsOf("autoscroll") : calls[i].n = Flag(FALSE)
    /\ HasCall("add_curve")

\* C19: in any reachable state save_settings writes exactly one key, 'plot_type',
\* whose value is the active index, and changes nothing of the facade; a
\* restore_settings that reads that value back, with the same availability
\* table, activates a backend with the active index of the time of the save,
\* without a fallback, and leaves the curves map as it was.
C19_SettingsRoundTrip ==
    [][/\ save_settings =>
             /\ calls' = <<Call("set_value", "plot_type", "", <<>>, <<>>, _plot_index)>>
             /\ err' = "none"
             /\ UNCHANGED <<plot_types, _plot_index, _autoscroll, _data_plot_widget,
                            _curves, heap, live>>
       /\ \A stored \in StoredSettings :
             /\ Len(calls) = 1 /\ calls[1].op = "set_value" /\ stored = {calls[1].n}
             /\ restore_settings(stored)
             => /\ err' = "none"
                /\ _plot_index' = _plot_index
                /\ _data_plot_widget' = {PyIndex(_plot_index)}
                /\ HasCall("construct")'
                /\ Curves' = Curves]_vars

C19_Witness ==
    /\ calls = <<Call("set_value", "plot_type", "", <<>>, <<>>, 2)>>
    /\ ~plot_types[0] /\ plot_types[1] /\ plot_types[2]
    /\ _data_plot_widget = {2}
    /\ DOMAIN _curves = CurveIds

====
